---- MODULE Spec2Model ----
\* Control plane of the orchestrator: the REST handlers of
\* shakenfist/external_api/app.py over the coordination store.
\*
\* The store (db, etcd), the network objects (net), the hypervisor objects
\* (virt) and the scheduler are separate modules of the repository; what the
\* handlers need of them is modelled from the specification (sections 3, 4.1,
\* 4.2) and marked so where it is defined.
EXTENDS Integers, Sequences, FiniteSets, TLC

\* ------------------------------------------------------------------ bounds

\* allocatable host addresses of every netblock are 1..NumAddrs
NumAddrs == 2
\* longest network list of one POST /instances body
MaxNets == 2
\* NetworkInterface records the store may hold
MaxIfaces == 2
\* concurrent POST /instances requests
MaxPosts == 1
\* concurrent float and defloat requests
MaxFloats == 2
\* instance uuids in play
MaxInstances == 1
\* POST /instances requests in flight that carry the same instance_uuid
MaxPair == 2
\* ticks of the supervisor's monitor loop
MaxTicks == 8
\* instances of the node that restore_instances finds
MaxRestore == 2
\* chunks of the longest image body
MaxChunks == 2
\* highest version of a cached image
MaxVersion == 2

\* ------------------------------------------------------------------ program constants

\* seconds of the image lock's lease (images.py line 31)
IMAGE_FETCH_LOCK_TIMEOUT == 600
\* seconds between two refreshes of the locks during a transfer (images.py line 158)
LockRefreshEvery == 10

\* TESTING, app.py line 38; nothing in the program assigns it again
TESTING == FALSE

\* ------------------------------------------------------------------ names

Nodes == {"A", "B"}
\* a placed_on that names no node of the cluster
Ghost == "ghost"
\* python None for a node name
NoNode == "none"
Networks == {"n1"}
Floating == "floating"
\* a netdesc without the network_uuid key
Absent == "absent"
Addrs == 1..NumAddrs
\* the address a caller names explicitly (0 stands for no address given)
ExplicitAddrs == {1}
Uuids == 1..MaxInstances
Posts == 1..MaxPosts
PairPosts == 1..MaxPair
Floaters == 1..MaxFloats
\* free RAM a node publishes, in units of one instance's memory
RamLevels == {0, 1}
\* the resources records of the nodes as the scheduler may read them
Resources == [Nodes -> RamLevels]

NodeRank(n) ==
    IF n = "A" THEN 1 ELSE 2

VARIABLES
    \* instances/<uuid>: [exists, node, state]
    instances,
    \* interfaces/: sequence of NetworkInterface records
    interfaces,
    \* networks/<uuid>: [state, floating_gateway]
    networks,
    \* ipmanagers/<network>: the in_use set
    ipmanagers,
    \* sf/ipmanager/<network>: 0 when free, else the holder
    locks,
    \* the POST /instances handlers, one record per request in flight
    posts,
    \* the DELETE /networks/<uuid> handler
    ndel,
    \* the POST /interfaces/<uuid>/float and /defloat handlers
    floats,
    \* the handler of a request on one instance (DELETE, poweron, ...)
    mut,
    \* the node supervisor (daemons/main.py)
    sup,
    \* the image cache of a node and the get_image call in progress (images.py)
    img,
    \* a request as generic_wrapper sees it, and the response it gets
    req

vars == <<instances, interfaces, networks, ipmanagers, locks, posts, ndel, floats, mut, sup, img, req>>

\* what the handlers of networks and interfaces leave alone beside the store
others == <<mut, sup, img, req>>

\* what the handlers of POST /instances leave alone
notPosts == <<ndel, floats, others>>

\* ------------------------------------------------------------------ inputs

NetDescs ==
    {[network_uuid |-> n, address |-> a] : n \in Networks, a \in {0} \cup ExplicitAddrs}
        \cup {[network_uuid |-> Absent, address |-> 0]}

RECURSIVE SeqsUpTo(_, _)
SeqsUpTo(S, n) ==
    IF n = 0 THEN {<<>>}
    ELSE LET shorter == SeqsUpTo(S, n - 1)
         IN  shorter \cup {Append(s, x) : s \in {t \in shorter : Len(t) = n - 1}, x \in S}

NetworkLists == SeqsUpTo(NetDescs, MaxNets)

NoMsg == [to |-> NoNode, network |-> <<>>, placed_on |-> NoNode, instance_uuid |-> 0]

IdleDelete == [pc |-> "idle", network_uuid |-> "", in_use |-> FALSE, status |-> 0]

IdleFloat == [pc |-> "idle", op |-> "", iface |-> 0, floating |-> 0, addr |-> 0, status |-> 0]

IdlePost ==
    [pc |-> "idle", origin |-> NoNode, self |-> NoNode,
     body |-> [network |-> <<>>, placed_on |-> NoNode, instance_uuid |-> 0],
     uuid |-> 0, placed_on |-> NoNode, network |-> <<>>, order |-> 0,
     nets |-> {}, allocations |-> <<>>, ipm |-> {},
     msg |-> NoMsg, sent |-> 0, r_status |-> 0, status |-> 0,
     refused |-> {}, granted |-> {}, placed |-> {},
     no_candidate |-> FALSE, provisioned_on |-> {}, leaked |-> {}]

NoRequest == [to |-> NoNode, method |-> "", path |-> "", data |-> "", authorization |-> ""]

NoResponse == [status_code |-> 0, text |-> "", mimetype |-> ""]

IdleMut ==
    [pc |-> "idle", self |-> NoNode, method |-> "", path |-> "", instance_uuid |-> 0,
     data |-> "", authorization |-> "", msg |-> NoRequest, sent |-> 0,
     ran_on |-> {}, r |-> NoResponse, resp |-> NoResponse]

\* python values that serve as dict keys and values: a str or an int
PyStr(x) == [str |-> x, int |-> 0]

PyInt(n) == [str |-> "", int |-> n]

EmptyDict == [k \in {} |-> PyInt(0)]

\* a step of main() as it is taken: what is done and for which daemon
Event(what, d) == [what |-> what, d |-> d]

\* the supervisor before main() runs; trace lists the steps main() has taken
IdleSup ==
    [pc |-> "idle", DAEMONS |-> EmptyDict, children |-> {}, zombies |-> {}, next_pid |-> 1,
     started |-> 0, todo |-> <<>>, created |-> {}, raised |-> {}, enqueued |-> {},
     ticks |-> 0, heartbeats |-> 0, wpid |-> 0, crashed_in |-> "", trace |-> <<>>,
     db |-> <<>>, nets_todo |-> <<>>, restored |-> {}, booted |-> {}]

\* no <hash>.info file
NoInfo == [exists |-> FALSE, version |-> 0, LastModified |-> "", ContentLength |-> -1, url |-> ""]

NoImageResponse == [status_code |-> 0, LastModified |-> "", ContentLength |-> -1, chunks |-> 0]

\* the argument locks of get_image: None or a list of lock handles
NoLocks == [none |-> TRUE, handles |-> <<>>]

FreeLock == [held |-> FALSE, expires |-> 0, refreshed |-> 0]

NoPath == [hash |-> "", version |-> 0, orig |-> FALSE]

\* the validated headers of no response and the path of no call
NoHeaders == [seen |-> FALSE, LastModified |-> "", ContentLength |-> -1, path |-> NoPath]

NoApiResponse == [status_code |-> 0, error |-> "", status |-> 0, traceback |-> FALSE]

IdleReq ==
    [pc |-> "idle", INCLUDE_TRACEBACKS |-> "", data |-> "", outcome |-> "",
     code |-> 0, raised |-> FALSE, resp |-> NoApiResponse]

\* the hashes one get_image call has used so far: for the name of its lock,
\* for the .info it read, for the .info it wrote and for the payload path
NoKeys == [lock |-> "", read |-> "", written |-> "", payload |-> ""]

\* an empty image cache and no get_image in progress; prev, wrote and
\* info_before record what claims refer to: the headers the last call that
\* returned saw and the path it returned, whether this call wrote a payload
\* file, and .info at its start
IdleImg ==
    [pc |-> "idle", url |-> "", locks |-> NoLocks, image_url |-> "", info |-> NoInfo,
     dirty |-> FALSE, resp |-> NoImageResponse, fetch_locks |-> NoLocks,
     fetched |-> 0, elapsed |-> 0, last_lock_refresh |-> -1,
     image_lock |-> FreeLock, caller_refreshed |-> 0,
     path |-> NoPath, raised |-> "",
     infos |-> [h \in {} |-> NoInfo], payloads |-> [f \in {} |-> 0], origs |-> {},
     qcow2 |-> {},
     prev |-> NoHeaders, wrote |-> FALSE, info_before |-> NoInfo, keys |-> NoKeys]

Range(s) == {s[k] : k \in DOMAIN s}

\* ------------------------------------------------ scheduler (section 4.1)

\* some other instance placed on node has an interface on net
HasOtherInstanceOn(node, net, uuid) ==
    \E i \in DOMAIN interfaces :
        /\ interfaces[i].network_uuid = net
        /\ interfaces[i].instance_uuid # uuid
        /\ instances[interfaces[i].instance_uuid].node = node

\* step 3: one point per requested network already instantiated on node
AffinityScore(node, network, uuid) ==
    Cardinality({n \in Networks :
        /\ \E k \in DOMAIN network : network[k].network_uuid = n
        /\ HasOtherInstanceOn(node, n, uuid)})

\* step 2: the node has room for one instance
Qualifies(node, ram) ==
    ram[node] >= 1

\* step 4: score descending, free RAM descending, name ascending
SortsBefore(a, b, network, uuid, ram) ==
    LET sa == AffinityScore(a, network, uuid)
        sb == AffinityScore(b, network, uuid)
    IN  \/ sa > sb
        \/ sa = sb /\ ram[a] > ram[b]
        \/ sa = sb /\ ram[a] = ram[b] /\ NodeRank(a) < NodeRank(b)

RECURSIVE SortNodes(_, _, _, _)
SortNodes(S, network, uuid, ram) ==
    IF S = {} THEN <<>>
    ELSE LET best == CHOOSE a \in S : \A b \in S \ {a} : SortsBefore(a, b, network, uuid, ram)
         IN  <<best>> \o SortNodes(S \ {best}, network, uuid, ram)

\* Scheduler.place_instance: [raised, list]. A candidate that is no node of
\* the cluster raises CandidateNodeNotFoundException; otherwise the ranked
\* survivors, restricted to the candidates in the caller's order.
place_instance(uuid, network, candidates, ram) ==
    IF \E k \in DOMAIN candidates : candidates[k] \notin Nodes
    THEN [raised |-> TRUE, list |-> <<>>]
    ELSE LET ranked == SortNodes({n \in Nodes : Qualifies(n, ram)}, network, uuid, ram)
             InRanked(c) == c \in Range(ranked)
         IN  [raised |-> FALSE,
              list |-> IF candidates = <<>> THEN ranked
                       ELSE SelectSeq(candidates, InRanked)]

\* ------------------------------------------------ store (sections 3, 4.2)

\* virt.from_db / virt.from_definition: the record exists afterwards
virt_from_definition(inst, uuid) ==
    IF inst[uuid].exists THEN inst
    ELSE [inst EXCEPT ![uuid] = [exists |-> TRUE, node |-> NoNode, state |-> "initial"]]

\* db.place_instance: a put of the node field
db_place_instance(inst, uuid, node) ==
    [inst EXCEPT ![uuid].node = node]

\* db.update_instance_state
db_update_instance_state(inst, uuid, state) ==
    [inst EXCEPT ![uuid].state = state]

\* net.from_db: TRUE when it returns a network object, FALSE for None
net_from_db(n) ==
    n \in DOMAIN networks /\ networks[n].state # "deleted"

\* IPManager.get_random_free_address draws from these
FreeAddrs(in_use) ==
    Addrs \ in_use

\* db.create_network_interface
db_create_network_interface(ifaces, netdesc, uuid, order) ==
    Append(ifaces, [instance_uuid |-> uuid, network_uuid |-> netdesc.network_uuid,
                    ipv4 |-> netdesc.address, order |-> order,
                    state |-> "initial", floating |-> 0])

\* db.update_network_interface_state for every interface of the instance
MarkCreated(ifaces, uuid) ==
    [i \in DOMAIN ifaces |->
        IF ifaces[i].instance_uuid = uuid
        THEN [ifaces[i] EXCEPT !.state = "created"]
        ELSE ifaces[i]]

\* ------------------------------------------------ POST /instances

\* uuid.uuid4(): a uuid no record and no request in flight carries
UnusedUuids ==
    {u \in Uuids : ~instances[u].exists /\ \A h \in DOMAIN posts : posts[h].uuid # u}

\* interfaces the requests in flight may still create
PendingIfaces ==
    LET Left(h) == IF posts[h].pc \in {"idle", "done", "proxyreturn"} THEN 0
                   ELSE Len(posts[h].network) - posts[h].order
        RECURSIVE Sum(_)
        Sum(S) == IF S = {} THEN 0
                  ELSE LET x == CHOOSE y \in S : TRUE IN Left(x) + Sum(S \ {x})
    IN  Sum(DOMAIN posts)

\* the handler returns (to the forwarding node when the request was forwarded);
\* leaked: the addresses the request reserved that are still in use at that time
Respond(rec, code, ipms) ==
    LET left == {g \in rec.granted : g[2] \in ipms[g[1]]}
    IN  IF rec.sent > 0
        THEN [rec EXCEPT !.pc = "proxyreturn", !.r_status = code, !.leaked = left, !.ipm = {}]
        ELSE [rec EXCEPT !.pc = "done", !.status = code, !.leaked = left, !.ipm = {}]

\* error_with_cleanup: every address of allocations released (lines 374-380)
Released(ipms, allocations) ==
    [n \in DOMAIN ipms |->
        ipms[n] \ {allocations[k][2] : k \in {j \in DOMAIN allocations : allocations[j][1] = n}}]

\* the networks error_with_cleanup takes the lock of: those with a tracked address
AllocNets(allocations) ==
    {allocations[k][1] : k \in DOMAIN allocations}

\* the keys of the allocations dict that come before net
NetsBefore(allocations, net) ==
    LET First(m) == CHOOSE k \in DOMAIN allocations :
                        /\ allocations[k][1] = m
                        /\ \A j \in DOMAIN allocations : allocations[j][1] = m => k <= j
    IN  {m \in AllocNets(allocations) : m # net /\ First(m) < First(net)}

OnlyNets(allocations, S) ==
    SelectSeq(allocations, LAMBDA e : e[1] \in S)

\* ScheduleFailed without the update of the instance's state
ScheduleFailedKeepsState(inst, rec) ==
    [instances |-> inst,
     post |-> Respond([rec EXCEPT !.no_candidate = TRUE], 507, ipmanagers)]

\* lines 326-330 and 341-345: no candidate
ScheduleFailed(inst, rec) ==
    [instances |-> db_update_instance_state(inst, rec.uuid, "error"),
     post |-> Respond([rec EXCEPT !.no_candidate = TRUE], 507, ipmanagers)]

\* line 350 and the entry of the loop at 384
AfterPlacement(rec, placed_on) ==
    IF placed_on # rec.self
    THEN [rec EXCEPT !.pc = "dispatch", !.placed_on = placed_on]
    ELSE [rec EXCEPT !.pc = IF rec.network = <<>> THEN "start" ELSE "net",
                     !.placed_on = placed_on]

\* lines 332-335: the head of the candidates is persisted
Placed(inst, rec, candidates) ==
    [instances |-> db_place_instance(inst, rec.uuid, candidates[1]),
     post |-> AfterPlacement([rec EXCEPT !.placed = @ \cup {<<rec.self, candidates[1]>>}],
                             candidates[1])]

\* lines 307-347: [instances, post] after the placement decision
Placement(rec, ram) ==
    LET inst == virt_from_definition(instances, rec.uuid)
    IN  IF rec.placed_on = NoNode
        THEN LET c == place_instance(rec.uuid, rec.network, <<>>, ram)
             IN  IF Len(c.list) = 0 THEN ScheduleFailed(inst, rec)
                 ELSE Placed(inst, rec, c.list)
        ELSE LET c == place_instance(rec.uuid, rec.network, <<rec.placed_on>>, ram)
             IN  IF c.raised
                 THEN [instances |-> inst, post |-> Respond(rec, 404, ipmanagers)]
                 ELSE IF Len(c.list) = 0 THEN ScheduleFailed(inst, rec)
                 ELSE [instances |-> inst, post |-> AfterPlacement(rec, rec.placed_on)]

\* Instances.post, lines 294-347: a client's request arrives at node
InstancesPost(h, node, iu, po, nw, ram) ==
    /\ posts[h].pc = "idle"
    /\ \A g \in DOMAIN posts : g < h => posts[g].pc # "idle"
    /\ Len(interfaces) + PendingIfaces + Len(nw) <= MaxIfaces
    /\ iu = 0 => UnusedUuids # {}
    /\ LET uuid == IF iu = 0 THEN CHOOSE u \in UnusedUuids : \A v \in UnusedUuids : u <= v
                   ELSE iu
           rec == [IdlePost EXCEPT !.origin = node, !.self = node,
                       !.body = [network |-> nw, placed_on |-> po, instance_uuid |-> iu],
                       !.uuid = uuid, !.placed_on = po, !.network = nw]
           out == Placement(rec, ram)
       IN  /\ instances' = out.instances
           /\ posts' = [posts EXCEPT ![h] = out.post]
    /\ UNCHANGED <<interfaces, networks, ipmanagers, locks, notPosts>>

\* ForwardBody without placed_on
ForwardBodyUnplaced(rec) ==
    [to |-> rec.placed_on, network |-> rec.body.network,
     placed_on |-> NoNode, instance_uuid |-> rec.uuid]

\* lines 351-353: the body sent on
ForwardBody(rec) ==
    [to |-> rec.placed_on, network |-> rec.body.network,
     placed_on |-> rec.placed_on, instance_uuid |-> rec.uuid]

\* lines 350-360: the request is re-issued to the node it was placed on
Dispatch(h) ==
    /\ posts[h].pc = "dispatch"
    /\ posts' = [posts EXCEPT ![h] = [posts[h] EXCEPT !.pc = "proxied",
                                           !.msg = ForwardBody(posts[h]), !.sent = @ + 1]]
    /\ UNCHANGED <<instances, interfaces, networks, ipmanagers, locks, notPosts>>

\* the forwarded request at the chosen node: it carries no Authorization
\* header (line 360), so the JWT layer may turn it down; else Instances.post
ForwardedPost(h) ==
    /\ posts[h].pc = "proxied"
    /\ \E authorized \in BOOLEAN, ram \in Resources :
        IF authorized
        THEN LET m == posts[h].msg
                 rec == [posts[h] EXCEPT !.self = m.to, !.uuid = m.instance_uuid,
                             !.placed_on = m.placed_on, !.network = m.network]
                 out == Placement(rec, ram)
             IN  /\ instances' = out.instances
                 /\ posts' = [posts EXCEPT ![h] = out.post]
        ELSE /\ posts' = [posts EXCEPT ![h] = Respond(posts[h], 401, ipmanagers)]
             /\ UNCHANGED instances
    /\ UNCHANGED <<interfaces, networks, ipmanagers, locks, notPosts>>

\* lines 362-367: the response of the chosen node is returned
ProxiedResponse(rec) ==
    [rec EXCEPT !.pc = "done", !.status = rec.r_status]

ProxyReturn(h) ==
    /\ posts[h].pc = "proxyreturn"
    /\ posts' = [posts EXCEPT ![h] = ProxiedResponse(posts[h])]
    /\ UNCHANGED <<instances, interfaces, networks, ipmanagers, locks, notPosts>>

\* lines 385-394: the network of the next netdesc is looked up. When it is
\* missing, error_with_cleanup runs and its response is dropped; the lookup
\* that follows raises (KeyError, or AttributeError on None) and
\* generic_wrapper answers 500.
InstancesPostNet(h) ==
    LET rec == posts[h]
        nd == rec.network[rec.order + 1]
        found == /\ nd.network_uuid # Absent
                 /\ nd.network_uuid \in rec.nets \/ net_from_db(nd.network_uuid)
    IN  /\ rec.pc = "net"
        /\ IF found
           THEN /\ posts' = [posts EXCEPT ![h] = [rec EXCEPT !.pc = "alloc",
                                 !.nets = @ \cup {nd.network_uuid}]]
                /\ UNCHANGED ipmanagers
           ELSE /\ \A n \in AllocNets(rec.allocations) : locks[n] = 0
                /\ ipmanagers' = Released(ipmanagers, rec.allocations)
                /\ posts' = [posts EXCEPT ![h] = Respond(rec, 500, ipmanagers')]
        /\ UNCHANGED <<instances, interfaces, networks, locks, notPosts>>

\* the netdesc the handler is at names no address and every address of its
\* network is in use
Exhausted(rec) ==
    /\ rec.pc = "alloc"
    /\ rec.network[rec.order + 1].address = 0
    /\ FreeAddrs(ipmanagers[rec.network[rec.order + 1].network_uuid]) = {}

\* lines 396-405 with no address given: get_random_free_address. On a full
\* IPManager it raises; the exception leaves the with block (the lock is
\* released), skips error_with_cleanup and reaches generic_wrapper, lines 93-94.
AllocRandom(h, rec, net) ==
    IF FreeAddrs(ipmanagers[net]) = {}
    THEN /\ posts' = [posts EXCEPT ![h] = Respond(rec, 500, ipmanagers)]
         /\ UNCHANGED <<ipmanagers, locks>>
    ELSE /\ \E a \in FreeAddrs(ipmanagers[net]) :
             posts' = [posts EXCEPT ![h] = [rec EXCEPT !.pc = "persist",
                          !.network[rec.order + 1].address = a,
                          !.ipm = ipmanagers[net] \cup {a},
                          !.granted = @ \cup {<<net, a, rec.order>>},
                          !.provisioned_on = @ \cup {rec.self}]]
         /\ locks' = [locks EXCEPT ![net] = h]
         /\ UNCHANGED ipmanagers

\* lines 403-405 when reserve() returns False: error_with_cleanup runs inside
\* the held lock and the handler goes on (its response is dropped). When
\* addresses of this very network are tracked, error_with_cleanup asks for the
\* lock the handler holds: the acquisition either raises, or goes through once
\* the lease of the outer lock has run out.
AllocRefused(h, rec, net) ==
    LET noted == [rec EXCEPT !.refused = @ \cup {rec.order}]
    IN  IF net \notin AllocNets(rec.allocations)
        THEN /\ \A n \in AllocNets(rec.allocations) : locks[n] = 0
             /\ ipmanagers' = Released(ipmanagers, rec.allocations)
             /\ posts' = [posts EXCEPT ![h] = [noted EXCEPT !.pc = "persist",
                              !.ipm = ipmanagers[net]]]
             /\ locks' = [locks EXCEPT ![net] = h]
        ELSE \/ /\ \A n \in NetsBefore(rec.allocations, net) : locks[n] = 0
                /\ ipmanagers' = Released(ipmanagers,
                       OnlyNets(rec.allocations, NetsBefore(rec.allocations, net)))
                /\ posts' = [posts EXCEPT ![h] = Respond(noted, 500, ipmanagers')]
                /\ UNCHANGED locks
             \/ /\ \A n \in AllocNets(rec.allocations) \ {net} : locks[n] = 0
                /\ ipmanagers' = Released(ipmanagers, rec.allocations)
                /\ posts' = [posts EXCEPT ![h] = [noted EXCEPT !.pc = "persist",
                                 !.ipm = ipmanagers[net]]]
                /\ UNCHANGED locks

\* lines 396-405: under sf/ipmanager/<network_uuid> an address is drawn or
\* the named one reserved
InstancesPostAlloc(h) ==
    LET rec == posts[h]
        nd == rec.network[rec.order + 1]
        net == nd.network_uuid
    IN  /\ rec.pc = "alloc"
        /\ locks[net] = 0
        /\ IF nd.address = 0 THEN AllocRandom(h, rec, net)
           ELSE IF nd.address \notin ipmanagers[net]
           THEN /\ posts' = [posts EXCEPT ![h] = [rec EXCEPT !.pc = "persist",
                                 !.ipm = ipmanagers[net] \cup {nd.address},
                                 !.granted = @ \cup {<<net, nd.address, rec.order>>},
                                 !.provisioned_on = @ \cup {rec.self}]]
                /\ locks' = [locks EXCEPT ![net] = h]
                /\ UNCHANGED ipmanagers
           ELSE AllocRefused(h, rec, net)
        /\ UNCHANGED <<instances, interfaces, networks, notPosts>>

\* lines 406-416: the IPManager is written back, the allocation tracked, the
\* lock released and the NetworkInterface record created
InstancesPostPersist(h) ==
    LET rec == posts[h]
        nd == rec.network[rec.order + 1]
        net == nd.network_uuid
    IN  /\ rec.pc = "persist"
        /\ ipmanagers' = [ipmanagers EXCEPT ![net] = rec.ipm]
        /\ locks' = [locks EXCEPT ![net] = IF @ = h THEN 0 ELSE @]
        /\ interfaces' = db_create_network_interface(interfaces, nd, rec.uuid, rec.order)
        /\ posts' = [posts EXCEPT ![h] = [rec EXCEPT
                        !.pc = IF rec.order + 1 = Len(rec.network) THEN "start" ELSE "net",
                        !.allocations = Append(@, <<net, nd.address, rec.order>>),
                        !.order = @ + 1, !.ipm = {},
                        !.provisioned_on = @ \cup {rec.self}]]
        /\ UNCHANGED <<instances, networks, notPosts>>

\* lines 419-431: mesh, DHCP and the hypervisor; when one of them raises,
\* generic_wrapper answers 500
InstancesPostStart(h) ==
    LET rec == posts[h]
    IN  /\ rec.pc = "start"
        /\ \E ok \in BOOLEAN :
            IF ok
            THEN /\ interfaces' = MarkCreated(interfaces, rec.uuid)
                 /\ posts' = [posts EXCEPT ![h] = Respond(rec, 200, ipmanagers)]
            ELSE /\ posts' = [posts EXCEPT ![h] = Respond(rec, 500, ipmanagers)]
                 /\ UNCHANGED interfaces
        /\ UNCHANGED <<instances, networks, ipmanagers, locks, notPosts>>

\* the response has gone to the client
Complete(h) ==
    /\ posts[h].pc = "done"
    /\ posts' = [posts EXCEPT ![h] = IdlePost]
    /\ UNCHANGED <<instances, interfaces, networks, ipmanagers, locks, notPosts>>

\* ------------------------------------------------ DELETE /networks/<uuid>

\* db.get_network_interfaces: the interfaces of the network that are not deleted
db_get_network_interfaces(n) ==
    {i \in DOMAIN interfaces :
        interfaces[i].network_uuid = n /\ interfaces[i].state # "deleted"}

\* lines 619-624: the floating network and a network in use are refused
DeleteRefused(n) ==
    n = Floating \/ Cardinality(db_get_network_interfaces(n)) > 0

\* Network.delete, lines 614-624 (arg_is_network_uuid finds the record of a
\* deleted network too: records stay until the cleaner reaps them)
NetworkDelete(n) ==
    /\ ndel.pc = "idle"
    /\ ndel' = IF DeleteRefused(n)
               THEN [pc |-> "done", network_uuid |-> n,
                     in_use |-> Cardinality(db_get_network_interfaces(n)) > 0,
                     status |-> 403]
               ELSE [pc |-> "teardown", network_uuid |-> n, in_use |-> FALSE, status |-> 0]
    /\ UNCHANGED <<instances, interfaces, networks, ipmanagers, locks, posts, floats, others>>

\* lines 626-636: DHCP and the network are torn down, the floating gateway
\* released under sf/ipmanager/floating and the state written. net.from_db
\* of a network deleted meanwhile is None: remove_dhcp raises, 500.
NetworkDeleteTeardown ==
    LET n == ndel.network_uuid
    IN  /\ ndel.pc = "teardown"
        /\ IF ~net_from_db(n)
           THEN /\ ndel' = [ndel EXCEPT !.pc = "done", !.status = 500]
                /\ UNCHANGED <<networks, ipmanagers>>
           ELSE /\ networks[n].floating_gateway # 0 => locks[Floating] = 0
                /\ ipmanagers' = [ipmanagers EXCEPT
                                    ![Floating] = @ \ {networks[n].floating_gateway}]
                /\ networks' = [networks EXCEPT ![n].state = "deleted"]
                /\ ndel' = [ndel EXCEPT !.pc = "done", !.status = 200]
        /\ UNCHANGED <<instances, interfaces, locks, posts, floats, others>>

NetworkDeleteComplete ==
    /\ ndel.pc = "done"
    /\ ndel' = IdleDelete
    /\ UNCHANGED <<instances, interfaces, networks, ipmanagers, locks, posts, floats, others>>

\* ------------------------------------------------ POST /interfaces/<uuid>/float, /defloat

FloatRefusedNever(ni) ==
    FALSE

\* line 546: the interface has a floating address already
FloatRefused(ni) ==
    ni.floating # 0

\* line 576: the interface has no floating address
DefloatRefused(ni) ==
    ni.floating = 0

\* lines 539-555 and 569-585: the interface is read and the request checked;
\* i = 0 names no interface
InterfaceCheck(f, op, i) ==
    /\ floats[f].pc = "idle"
    /\ \A g \in Floaters : g < f => floats[g].pc # "idle"
    /\ LET rec == [IdleFloat EXCEPT !.op = op, !.iface = i]
       IN  floats' = [floats EXCEPT ![f] =
              IF i \notin DOMAIN interfaces
              THEN [rec EXCEPT !.pc = "done", !.status = 404]
              ELSE IF (op = "float" /\ FloatRefused(interfaces[i]))
                        \/ (op = "defloat" /\ DefloatRefused(interfaces[i]))
              THEN [rec EXCEPT !.pc = "done", !.status = 409,
                               !.floating = interfaces[i].floating]
              ELSE IF ~net_from_db(interfaces[i].network_uuid) \/ ~net_from_db(Floating)
              THEN [rec EXCEPT !.pc = "done", !.status = 404,
                               !.floating = interfaces[i].floating]
              ELSE [rec EXCEPT !.pc = "lock", !.floating = interfaces[i].floating]]
    /\ UNCHANGED <<instances, interfaces, networks, ipmanagers, locks, posts, ndel, others>>

\* InterfaceFloat.post, lines 557-560: an address is drawn under the lock;
\* get_random_free_address raises when none is free
InterfaceFloatAllocate(f) ==
    /\ floats[f].pc = "lock"
    /\ floats[f].op = "float"
    /\ locks[Floating] = 0
    /\ IF FreeAddrs(ipmanagers[Floating]) = {}
       THEN /\ floats' = [floats EXCEPT ![f].pc = "done", ![f].status = 500]
            /\ UNCHANGED ipmanagers
       ELSE \E a \in FreeAddrs(ipmanagers[Floating]) :
            /\ ipmanagers' = [ipmanagers EXCEPT ![Floating] = @ \cup {a}]
            /\ floats' = [floats EXCEPT ![f].pc = "write", ![f].addr = a]
    /\ UNCHANGED <<instances, interfaces, networks, locks, posts, ndel, others>>

\* lines 562-563: db.add_floating_to_interface
InterfaceFloatWrite(f) ==
    /\ floats[f].pc = "write"
    /\ floats[f].op = "float"
    /\ interfaces' = [interfaces EXCEPT ![floats[f].iface].floating = floats[f].addr]
    /\ floats' = [floats EXCEPT ![f].pc = "done", ![f].status = 200]
    /\ UNCHANGED <<instances, networks, ipmanagers, locks, posts, ndel, others>>

\* InterfaceDefloat.post, lines 587-590: the address read at line 572 is
\* released under the lock
InterfaceDefloatRelease(f) ==
    /\ floats[f].pc = "lock"
    /\ floats[f].op = "defloat"
    /\ locks[Floating] = 0
    /\ ipmanagers' = [ipmanagers EXCEPT ![Floating] = @ \ {floats[f].floating}]
    /\ floats' = [floats EXCEPT ![f].pc = "write"]
    /\ UNCHANGED <<instances, interfaces, networks, locks, posts, ndel, others>>

\* lines 592-593: db.remove_floating_from_interface
InterfaceDefloatWrite(f) ==
    /\ floats[f].pc = "write"
    /\ floats[f].op = "defloat"
    /\ interfaces' = [interfaces EXCEPT ![floats[f].iface].floating = 0]
    /\ floats' = [floats EXCEPT ![f].pc = "done", ![f].status = 200]
    /\ UNCHANGED <<instances, networks, ipmanagers, locks, posts, ndel, others>>

InterfaceComplete(f) ==
    /\ floats[f].pc = "done"
    /\ floats' = [floats EXCEPT ![f] = IdleFloat]
    /\ UNCHANGED <<instances, interfaces, networks, ipmanagers, locks, posts, ndel, others>>

\* ------------------------------------------------ requests on one instance

\* the handlers under redirect_instance_request: REQUEST_METHOD and what
\* follows /instances/<instance_uuid> in PATH_INFO
Mutations ==
    {[method |-> "DELETE", suffix |-> ""]} \cup
    {[method |-> "POST", suffix |-> x] :
        x \in {"/snapshot", "/rebootsoft", "/reboothard", "/poweroff",
               "/poweron", "/pause", "/unpause"}}

PathInfo(uuid, suffix) ==
    IF uuid = 1 THEN "/instances/1" \o suffix ELSE "/instances/?" \o suffix

\* request bodies as clients write them: none, null, {}, and {"all": true}
\* in the two spellings JSON encoders produce
RequestBodies ==
    {"", "null", "{}", "{\"all\": true}", "{\"all\":true}"}

\* Authorization headers of callers with a valid token
Tokens == {"Bearer t1", "Bearer t2"}

\* flask_get_post_body, lines 63-73: the JSON value of the body; {} when the
\* body is empty or does not parse
flask_get_post_body(data) ==
    IF data = "null" THEN [none |-> TRUE, items |-> {}]
    ELSE IF data \in {"{\"all\": true}", "{\"all\":true}"}
    THEN [none |-> FALSE, items |-> {<<"all", TRUE>>}]
    ELSE [none |-> FALSE, items |-> {}]

\* json.dumps with its default separators
json_dumps(j) ==
    IF j.none THEN "null"
    ELSE IF j.items = {} THEN "{}"
    ELSE "{\"all\": true}"

\* redirect_instance_request, lines 143-150: the request sent to the node of
\* the instance
ProxiedRequest(rec, node) ==
    [to |-> node, method |-> rec.method, path |-> rec.path,
     data |-> json_dumps(flask_get_post_body(rec.data)),
     authorization |-> rec.authorization]

\* error(), lines 42-60
ErrorResponse(code) ==
    [status_code |-> code, text |-> "error", mimetype |-> "application/json"]

\* what flask_restful makes of a handler's return value
HandlerResponse ==
    [status_code |-> 200, text |-> "result", mimetype |-> "application/json"]

\* lines 155-158: the response built from the owning node's answer
RelayedResponse(r) ==
    [status_code |-> r.status_code, text |-> r.text, mimetype |-> "application/json"]

\* Instance.delete, lines 261-265: of the instance's interfaces the first of
\* each network is marked deleted
DeleteMarksInterfaces(ifaces, uuid) ==
    [k \in DOMAIN ifaces |->
        IF /\ ifaces[k].instance_uuid = uuid
           /\ \A j \in DOMAIN ifaces :
                (j < k /\ ifaces[j].instance_uuid = uuid)
                    => ifaces[j].network_uuid # ifaces[k].network_uuid
        THEN [ifaces[k] EXCEPT !.state = "deleted"]
        ELSE ifaces[k]]

\* the handler proper at node: Instance.delete (lines 258-285) marks the
\* interfaces and has the hypervisor driver delete the instance; the other
\* handlers (lines 456-533) call the driver, which keeps no state modelled here
RunsHere(rec, node, ok) ==
    /\ interfaces' = IF rec.method = "DELETE"
                     THEN DeleteMarksInterfaces(interfaces, rec.instance_uuid)
                     ELSE interfaces
    /\ instances' = IF rec.method = "DELETE" /\ ok
                    THEN db_update_instance_state(instances, rec.instance_uuid, "deleted")
                    ELSE instances

\* jwt_required, arg_is_instance_uuid_as_virt and redirect_instance_request
\* (lines 124-161) for a request received at node, then the handler when the
\* instance is here
InstanceRequest(node, op, uuid, data, token) ==
    /\ mut.pc = "idle"
    /\ LET rec == [IdleMut EXCEPT !.self = node, !.method = op.method,
                       !.path = PathInfo(uuid, op.suffix), !.instance_uuid = uuid,
                       !.data = data, !.authorization = token]
       IN  IF uuid \notin Uuids \/ ~instances[uuid].exists
           THEN /\ mut' = [rec EXCEPT !.pc = "done", !.resp = ErrorResponse(404)]
                /\ UNCHANGED <<instances, interfaces>>
           ELSE IF instances[uuid].node # node
           THEN /\ mut' = [rec EXCEPT !.pc = "proxied", !.sent = 1,
                                      !.msg = ProxiedRequest(rec, instances[uuid].node)]
                /\ UNCHANGED <<instances, interfaces>>
           ELSE \E ok \in BOOLEAN :
                /\ RunsHere(rec, node, ok)
                /\ mut' = [rec EXCEPT !.pc = "done", !.ran_on = {node},
                              !.resp = IF ok THEN HandlerResponse ELSE ErrorResponse(500)]
    /\ UNCHANGED <<networks, ipmanagers, locks, posts, ndel, floats, sup, img, req>>

\* the proxied request at the node it was sent to: no such host (an instance
\* not yet placed) makes requests.request raise, 500 at the first node
InstanceRequestProxied ==
    /\ mut.pc = "proxied"
    /\ IF mut.msg.to \notin Nodes
       THEN /\ mut' = [mut EXCEPT !.pc = "done", !.resp = ErrorResponse(500)]
            /\ UNCHANGED <<instances, interfaces>>
       ELSE \E ok \in BOOLEAN :
            /\ RunsHere(mut, mut.msg.to, ok)
            /\ mut' = [mut EXCEPT !.pc = "relay", !.ran_on = @ \cup {mut.msg.to},
                          !.r = IF ok THEN HandlerResponse ELSE ErrorResponse(500)]
    /\ UNCHANGED <<networks, ipmanagers, locks, posts, ndel, floats, sup, img, req>>

\* lines 152-158: the answer is handed back
InstanceRequestRelay ==
    /\ mut.pc = "relay"
    /\ mut' = [mut EXCEPT !.pc = "done", !.resp = RelayedResponse(mut.r)]
    /\ UNCHANGED <<instances, interfaces, networks, ipmanagers, locks, posts, ndel, floats,
                   sup, img, req>>

InstanceRequestComplete ==
    /\ mut.pc = "done"
    /\ mut' = IdleMut
    /\ UNCHANGED <<instances, interfaces, networks, ipmanagers, locks, posts, ndel, floats,
                   sup, img, req>>

\* ------------------------------------------------ node supervisor (daemons/main.py)

\* a list of daemons that leaves triggers out
StartedDaemonsWithoutTriggers == <<"api", "cleaner", "net", "queues">>

\* line 155: the daemons started after the resources publisher
StartedDaemons == <<"api", "cleaner", "net", "queues", "triggers">>

\* dict[key] = value
DictSet(D, k, v) ==
    [x \in DOMAIN D \cup {k} |-> IF x = k THEN v ELSE D[x]]

\* dict.get(key, default)
DictGet(D, k, default) ==
    IF k \in DOMAIN D THEN D[k] ELSE default

\* os.fork() in the parent and DAEMONS[d] = pid (lines 95-99, 147-151)
Fork(rec, d) ==
    [rec EXCEPT !.children = @ \cup {rec.next_pid},
                !.DAEMONS = DictSet(@, d, PyInt(rec.next_pid)),
                !.next_pid = @ + 1,
                !.trace = @ \o <<Event("fork", d.str), Event("record", d.str)>>]

\* an uncaught exception ends main()
Crashed(rec, where) ==
    [rec EXCEPT !.pc = "crashed", !.crashed_in = where]

\* NODE_NAME of the node the supervisor runs on
ThisNode == "A"

\* the overlay networks interfaces of the stored instances are on
RestoreNetworks == {"n1", "n2"}

\* power_state as stored with an instance ("" when the record has none)
PowerStates ==
    {"on", "transition-to-on", "initial", "unknown", "",
     "off", "transition-to-off", "error"}

\* line 54: i.db_entry.get('power_state', 'unknown')
power_state(entry) ==
    IF entry.power_state = "" THEN "unknown" ELSE entry.power_state

\* lines 54-56: the power states restore_instances goes on to create
RestoredPowerStates == {"on", "transition-to-on", "initial", "unknown"}

\* db.get_instances(only_node=...), line 31: the uuids (places in the store)
\* of the instances whose node is only_node
db_get_instances(db, only_node) ==
    SelectSeq([k \in DOMAIN db |-> k], LAMBDA k : db[k].node = only_node)

\* lines 29-35: the networks of the interfaces of the instances, each once,
\* in the order they are met
RECURSIVE NetworksOf(_, _, _)
NetworksOf(db, uuids, seen) ==
    IF uuids = <<>> THEN seen
    ELSE LET nets == db[Head(uuids)].networks
             new == SelectSeq(nets, LAMBDA n : n \notin Range(seen))
             once == IF Len(new) = 2 /\ new[1] = new[2] THEN <<new[1]>> ELSE new
         IN  NetworksOf(db, Tail(uuids), seen \o once)

\* main, lines 82-100: first heartbeat (db.see_this_node, line 91), then the
\* resources publisher; db, one of stores, is what the store holds of instances
SupervisorStart(stores) ==
    /\ sup.pc = "idle"
    /\ \E db \in stores :
        LET seen == [sup EXCEPT !.heartbeats = 1,
                               !.trace = <<Event("see_this_node", "")>>]
        IN  sup' = [Fork(seen, PyStr("resources")) EXCEPT !.pc = "daemons", !.db = db]
    /\ UNCHANGED <<instances, interfaces, networks, ipmanagers, locks, posts, ndel, floats,
                   mut, img, req>>

\* lines 146-158: _start_daemon for the next name of the list; after the
\* last one restore_instances is called and lists the instances of this node
\* and their networks (lines 29-35)
SupervisorStartDaemon ==
    /\ sup.pc = "daemons"
    /\ LET d == StartedDaemons[sup.started + 1]
           rec == [Fork(sup, PyStr(d)) EXCEPT !.started = @ + 1]
           mine == db_get_instances(sup.db, ThisNode)
       IN  sup' = IF rec.started = Len(StartedDaemons)
                  THEN [rec EXCEPT !.pc = "restore",
                                   !.trace = Append(@, Event("restore_instances", "")),
                                   !.todo = mine,
                                   !.nets_todo = NetworksOf(sup.db, mine, <<>>)]
                  ELSE rec
    /\ UNCHANGED <<instances, interfaces, networks, ipmanagers, locks, posts, ndel, floats,
                   mut, img, req>>

\* restore_instances, lines 37-46, for the next network: it is restored, or
\* an exception is logged and ignored
RestoreNetwork ==
    /\ sup.pc = "restore"
    /\ sup.nets_todo # <<>>
    /\ \E ok \in BOOLEAN :
        LET n == Head(sup.nets_todo)
        IN  sup' = [sup EXCEPT !.nets_todo = Tail(@),
                               !.restored = IF ok THEN @ \cup {n} ELSE @,
                               !.trace = Append(@, Event("restore network", n))]
    /\ UNCHANGED <<instances, interfaces, networks, ipmanagers, locks, posts, ndel, floats,
                   mut, img, req>>

\* restore_instances, lines 48-62, for the next instance: it is skipped for
\* its power state, or i.create() is called and returns or raises; the
\* handler at line 62 then evaluates the name node, which nothing defines:
\* NameError leaves restore_instances and main
RestoreInstance ==
    /\ sup.pc = "restore"
    /\ sup.nets_todo = <<>>
    /\ sup.todo # <<>>
    /\ LET u == Head(sup.todo)
           rec == [sup EXCEPT !.todo = Tail(@)]
           booting == [rec EXCEPT !.booted = @ \cup {u},
                                  !.trace = Append(@, Event("create instance", ""))]
       IN  IF power_state(sup.db[u]) \notin RestoredPowerStates
           THEN sup' = rec
           ELSE \E outcome \in {"created", "raised"} :
                sup' = IF outcome = "created"
                       THEN [booting EXCEPT !.created = @ \cup {u}]
                       ELSE Crashed([booting EXCEPT !.raised = @ \cup {u}], "restore")
    /\ UNCHANGED <<instances, interfaces, networks, ipmanagers, locks, posts, ndel, floats,
                   mut, img, req>>

\* line 158 returns, line 160: the monitor loop is entered
RestoreDone ==
    /\ sup.pc = "restore"
    /\ sup.nets_todo = <<>>
    /\ sup.todo = <<>>
    /\ sup' = [sup EXCEPT !.pc = "monitor",
                          !.trace = @ \o <<Event("restore returned", ""), Event("monitor", "")>>]
    /\ UNCHANGED <<instances, interfaces, networks, ipmanagers, locks, posts, ndel, floats,
                   mut, img, req>>

\* a child of the supervisor exits and waits to be reaped
ChildExits(pid) ==
    /\ sup.pc \in {"daemons", "restore", "monitor"}
    /\ pid \in sup.children
    /\ sup' = [sup EXCEPT !.children = @ \ {pid}, !.zombies = @ \cup {pid}]
    /\ UNCHANGED <<instances, interfaces, networks, ipmanagers, locks, posts, ndel, floats,
                   mut, img, req>>

\* lines 163-167 for the pid waitpid returned, then line 169
Reaped(rec, wpid) ==
    LET d == DictGet(rec.DAEMONS, PyInt(wpid), PyStr("unknown"))
        after == IF wpid # 0 /\ d # PyStr("unknown") THEN Fork(rec, d) ELSE rec
    IN  [after EXCEPT !.wpid = wpid, !.ticks = @ + 1, !.heartbeats = @ + 1]

\* lines 160-169, one pass of the loop: os.waitpid(-1, WNOHANG) raises
\* ChildProcessError when the process has no child, returns an exited child
\* if there is one, else (0, 0)
MonitorTick ==
    /\ sup.pc = "monitor"
    /\ sup.ticks < MaxTicks
    /\ IF sup.children \cup sup.zombies = {}
       THEN sup' = Crashed([sup EXCEPT !.ticks = @ + 1], "monitor")
       ELSE IF sup.zombies = {}
       THEN sup' = Reaped(sup, 0)
       ELSE \E wpid \in sup.zombies :
                sup' = Reaped([sup EXCEPT !.zombies = @ \ {wpid}], wpid)
    /\ UNCHANGED <<instances, interfaces, networks, ipmanagers, locks, posts, ndel, floats,
                   mut, img, req>>

\* ------------------------------------------------ image cache (images.py)

\* a plain URL, a URL of a gzip file, and a name a resolver rewrites
ImageUrls == {"http://img/disk", "http://img/disk.gz", "cirros"}

\* resolve, lines 77-81: names that start with cirros or ubuntu are rewritten
\* to the URL of the download
resolve(name) ==
    IF name = "cirros" THEN "http://cirros/disk" ELSE name

\* hash_image, lines 93-99: the SHA-256 of the URL, one hash per URL
hash_image(image_url) ==
    "sha256:" \o image_url

\* info['url'].endswith('.gz'), line 170
EndsWithGz(url) ==
    url = "http://img/disk.gz"

\* seconds a chunk of the body takes to arrive
ChunkTimes == {1, 400}

\* what the image server may answer: a status, the two validated headers
\* (LastModified "", ContentLength -1: no such header) and the chunks of the body
ImageResponses ==
    [status_code : {200, 404}, LastModified : {"", "lm1", "lm2"},
     ContentLength : {-1} \cup (0..MaxChunks), chunks : 0..MaxChunks]

\* the list of lock handles a caller passes: none, or its own lock
CallerLocks ==
    {NoLocks, [none |-> FALSE, handles |-> <<>>], [none |-> FALSE, handles |-> <<"caller">>]}

\* _read_info, lines 105-116
read_info(infos, image_url, hashed_image_url) ==
    IF hashed_image_url \in DOMAIN infos THEN infos[hashed_image_url]
    ELSE [NoInfo EXCEPT !.url = image_url]

\* lines 130-133: some validated field differs from the response's header
image_dirty(info, resp) ==
    \/ info.LastModified # resp.LastModified
    \/ info.ContentLength # resp.ContentLength

\* locks.append(image_lock), line 51: the caller's list grows, the value of
\* the call is None
ListAppend(list, handle) ==
    [list EXCEPT !.handles = Append(@, handle)]

\* bump_locks, lines 141-145: every handle of a list that is given is refreshed
bump_locks(rec, list) ==
    IF list.none \/ list.handles = <<>> THEN rec
    ELSE [rec EXCEPT
            !.image_lock = IF "image_lock" \in Range(list.handles)
                           THEN [@ EXCEPT !.expires = rec.elapsed + IMAGE_FETCH_LOCK_TIMEOUT,
                                          !.refreshed = @ + 1]
                           ELSE @,
            !.caller_refreshed = IF "caller" \in Range(list.handles) THEN @ + 1 ELSE @]

\* get_image never unlocks when it raises
LeaveLockedOnError(rec, raised) ==
    [rec EXCEPT !.pc = "done", !.raised = raised,
                !.image_lock = IF raised = "" THEN FreeLock ELSE @]

\* the with statement of line 42 is left, by return or by an exception: the
\* image lock is released
Leave(rec, raised) ==
    [rec EXCEPT !.pc = "done", !.raised = raised, !.image_lock = FreeLock]

DictPut(D, k, v) ==
    [x \in DOMAIN D \cup {k} |-> IF x = k THEN v ELSE D[x]]

\* get_image, lines 39-43: the image lock of the hash of url is taken
GetImage(url, caller_locks) ==
    /\ img.pc = "idle"
    /\ url = IF img.url = "" THEN url ELSE img.url
    /\ read_info(img.infos, resolve(url), hash_image(resolve(url))).version < MaxVersion
    /\ ~img.image_lock.held
    /\ img' = [img EXCEPT !.pc = "check", !.url = url, !.locks = caller_locks,
                  !.image_lock = [held |-> TRUE, expires |-> IMAGE_FETCH_LOCK_TIMEOUT,
                                  refreshed |-> 0],
                  !.elapsed = 0, !.last_lock_refresh = -1, !.caller_refreshed = 0,
                  !.fetched = 0, !.dirty = FALSE, !.raised = "", !.path = NoPath,
                  !.resp = NoImageResponse, !.fetch_locks = NoLocks, !.wrote = FALSE,
                  !.info_before = read_info(img.infos, url, hash_image(url)),
                  !.keys = [NoKeys EXCEPT !.lock = hash_image(url)]]
    /\ UNCHANGED <<instances, interfaces, networks, ipmanagers, locks, posts, ndel, floats,
                   mut, sup, req>>

\* lines 45-54 with requires_fetch (119-135) and the head of fetch (147-154):
\* the server answers resp
RequiresFetch(resp) ==
    /\ img.pc = "check"
    /\ LET image_url == resolve(img.url)
           info == read_info(img.infos, image_url, hash_image(image_url))
           dirty == image_dirty(info, resp)
           rec == [img EXCEPT !.image_url = image_url, !.info = info, !.resp = resp,
                              !.keys.read = hash_image(image_url)]
           bumped == [info EXCEPT !.version = @ + 1, !.exists = TRUE,
                                  !.LastModified = resp.LastModified,
                                  !.ContentLength = resp.ContentLength]
           file == <<hash_image(img.url), bumped.version>>
       IN  img' =
             IF resp.status_code # 200 THEN Leave(rec, "HTTPError")
             ELSE IF ~dirty
             THEN [rec EXCEPT !.pc = "transcode", !.keys.payload = hash_image(img.url),
                     !.path = [hash |-> hash_image(img.url), version |-> info.version,
                               orig |-> FALSE]]
             ELSE IF img.locks.none THEN Leave([rec EXCEPT !.dirty = TRUE], "AttributeError")
             ELSE [rec EXCEPT !.pc = "fetch", !.dirty = TRUE, !.info = bumped,
                     !.locks = ListAppend(@, "image_lock"), !.fetch_locks = NoLocks,
                     !.payloads = DictPut(@, file, 0), !.wrote = TRUE,
                     !.keys.payload = file[1]]
    /\ UNCHANGED <<instances, interfaces, networks, ipmanagers, locks, posts, ndel, floats,
                   mut, sup, req>>

\* lines 155-160: a chunk arrives after dt seconds and is written; the locks
\* are bumped when more than 10 seconds passed since the last time
FetchChunk(dt) ==
    /\ img.pc = "fetch"
    /\ img.fetched < img.resp.chunks
    /\ LET file == <<hash_image(img.url), img.info.version>>
           now == img.elapsed + dt
           rec == [img EXCEPT !.fetched = @ + 1, !.elapsed = now,
                              !.payloads = DictPut(@, file, img.payloads[file] + 1)]
       IN  img' = IF img.last_lock_refresh = -1
                     \/ now - img.last_lock_refresh > LockRefreshEvery
                  THEN [bump_locks(rec, img.fetch_locks) EXCEPT !.last_lock_refresh = now]
                  ELSE rec
    /\ UNCHANGED <<instances, interfaces, networks, ipmanagers, locks, posts, ndel, floats,
                   mut, sup, req>>

\* lines 162-180: .info is written when something was fetched; a .gz payload
\* is decompressed unless .orig is there
FetchEnd ==
    /\ img.pc = "fetch"
    /\ img.fetched = img.resp.chunks
    /\ LET h == hash_image(img.url)
           rec == IF img.fetched > 0
                  THEN [img EXCEPT !.infos = DictPut(@, h, img.info), !.keys.written = h]
                  ELSE img
           orig == [hash |-> h, version |-> img.info.version, orig |-> TRUE]
       IN  IF ~EndsWithGz(img.info.url)
           THEN img' = [rec EXCEPT !.pc = "transcode", !.path = [orig EXCEPT !.orig = FALSE]]
           ELSE IF orig \in img.origs
           THEN img' = [rec EXCEPT !.pc = "transcode", !.path = orig]
           ELSE \E ok \in BOOLEAN :
                LET bumped == bump_locks(rec, img.fetch_locks)
                IN  img' = IF ok THEN [bumped EXCEPT !.pc = "transcode", !.path = orig,
                                                     !.origs = @ \cup {orig}]
                           ELSE Leave(bumped, "ProcessExecutionError")
    /\ UNCHANGED <<instances, interfaces, networks, ipmanagers, locks, posts, ndel, floats,
                   mut, sup, req>>

\* os.path.exists of a payload path
PathExists(rec, path) ==
    IF path.orig THEN path \in rec.origs
    ELSE <<path.hash, path.version>> \in DOMAIN rec.payloads

\* lines 56-58 with _transcode (61-74): the qcow2 file is made unless it is
\* there; qemu-img may fail, and fails when the payload file is missing; the
\* with statement is left
Transcode ==
    /\ img.pc = "transcode"
    /\ \E ok \in BOOLEAN :
        img' = IF img.path \in img.qcow2 \/ (ok /\ PathExists(img, img.path))
               THEN [Leave(img, "") EXCEPT !.qcow2 = @ \cup {img.path}]
               ELSE Leave(img, "ProcessExecutionError")
    /\ UNCHANGED <<instances, interfaces, networks, ipmanagers, locks, posts, ndel, floats,
                   mut, sup, req>>

\* the caller has the result; the cache stays
GetImageComplete ==
    /\ img.pc = "done"
    /\ img' = [IdleImg EXCEPT !.url = img.url, !.infos = img.infos,
                  !.payloads = img.payloads, !.origs = img.origs, !.qcow2 = img.qcow2,
                  !.prev = IF img.raised # "" THEN img.prev
                           ELSE [seen |-> TRUE, LastModified |-> img.resp.LastModified,
                                 ContentLength |-> img.resp.ContentLength,
                                 path |-> img.path]]
    /\ UNCHANGED <<instances, interfaces, networks, ipmanagers, locks, posts, ndel, floats,
                   mut, sup, req>>

\* ------------------------------------------------ every request (generic_wrapper)

\* values the configuration may hold for INCLUDE_TRACEBACKS ("" when unset)
TracebackSettings == {"", "0", "1", "true"}

\* request bodies: none, a JSON object, a JSON list, a JSON number
ApiBodies == {"", "{\"name\": \"x\"}", "[\"name\"]", "5"}

\* what the wrapped handler does with the request
HandlerOutcomes == {"returns", "error", "raises"}

\* the status codes handlers pass to error()
HandlerErrorCodes == {400, 401, 403, 404, 409, 507}

\* lines 81-88: the keys of the body are copied into kwargs; a body that is
\* not an object raises there (a list is indexed by its own element, a
\* number is not iterable)
KwargsRaise(data) ==
    data \in {"[\"name\"]", "5"}

\* error() that puts the traceback in whenever an exception is in flight
errorWithTraceback(status_code, message, include, tb) ==
    [status_code |-> status_code, error |-> message, status |-> status_code,
     traceback |-> tb]

\* error(), lines 42-60; tb is whether sys.exc_info() holds a traceback
error(status_code, message, include, tb) ==
    [status_code |-> status_code, error |-> message, status |-> status_code,
     traceback |-> (TESTING \/ include = "1") /\ tb]

\* generic_wrapper, lines 76-94, around any handler
GenericWrapper(include, data, outcome, code) ==
    /\ req.pc = "idle"
    /\ outcome = "error" \/ code = 0
    /\ outcome = "error" => code \in HandlerErrorCodes
    /\ LET escapes == KwargsRaise(data) \/ outcome = "raises"
           resp == IF escapes THEN error(500, "server error", include, TRUE)
                   ELSE IF outcome = "error" THEN error(code, "refused", include, FALSE)
                   ELSE [NoApiResponse EXCEPT !.status_code = 200]
       IN  req' = [pc |-> "done", INCLUDE_TRACEBACKS |-> include, data |-> data,
                   outcome |-> outcome, code |-> code, raised |-> escapes, resp |-> resp]
    /\ UNCHANGED <<instances, interfaces, networks, ipmanagers, locks, posts, ndel, floats,
                   mut, sup, img>>

\* the response is sent
ResponseSent ==
    /\ req.pc = "done"
    /\ req' = IdleReq
    /\ UNCHANGED <<instances, interfaces, networks, ipmanagers, locks, posts, ndel, floats,
                   mut, sup, img>>

\* ------------------------------------------------ specification

\* no request on an instance, no supervisor and no get_image is running
InitOthers ==
    /\ mut = IdleMut
    /\ sup = IdleSup
    /\ img = IdleImg
    /\ req = IdleReq


Init ==
    /\ instances = [u \in Uuids |-> [exists |-> FALSE, node |-> NoNode, state |-> "initial"]]
    /\ interfaces = <<>>
    /\ networks = [n \in Networks \cup {Floating} |-> [state |-> "created", floating_gateway |-> 0]]
    /\ ipmanagers = [n \in Networks \cup {Floating} |-> {}]
    /\ locks = [n \in Networks \cup {Floating} |-> 0]
    /\ posts = [h \in Posts |-> IdlePost]
    /\ ndel = IdleDelete
    /\ floats = [f \in Floaters |-> IdleFloat]
    /\ InitOthers

Arrive ==
    \E h \in Posts, node \in Nodes, iu \in {0} \cup Uuids,
       po \in {NoNode, Ghost} \cup Nodes, nw \in NetworkLists, ram \in Resources :
        InstancesPost(h, node, iu, po, nw, ram)

\* the steps of the requests in flight
Running ==
    \/ \E h \in DOMAIN posts : Dispatch(h)
    \/ \E h \in DOMAIN posts : ForwardedPost(h)
    \/ \E h \in DOMAIN posts : ProxyReturn(h)
    \/ \E h \in DOMAIN posts : InstancesPostNet(h)
    \/ \E h \in DOMAIN posts : InstancesPostAlloc(h)
    \/ \E h \in DOMAIN posts : InstancesPostPersist(h)
    \/ \E h \in DOMAIN posts : InstancesPostStart(h)
    \/ \E h \in DOMAIN posts : Complete(h)

Next ==
    \/ Arrive
    \/ Running

Spec == Init /\ [][Next]_vars

\* POST /instances requests in flight together that carry instance_uuid 1:
\* at most one network entry each, no address named
PairNetworkLists ==
    {<<>>} \cup {<<[network_uuid |-> n, address |-> 0]>> : n \in Networks}

InitPair ==
    /\ instances = [u \in Uuids |-> [exists |-> FALSE, node |-> NoNode, state |-> "initial"]]
    /\ interfaces = <<>>
    /\ networks = [n \in Networks \cup {Floating} |-> [state |-> "created", floating_gateway |-> 0]]
    /\ ipmanagers = [n \in Networks \cup {Floating} |-> {}]
    /\ locks = [n \in Networks \cup {Floating} |-> 0]
    /\ posts = [h \in PairPosts |-> IdlePost]
    /\ ndel = IdleDelete
    /\ floats = [f \in Floaters |-> IdleFloat]
    /\ InitOthers

ArrivePair ==
    \E h \in PairPosts, node \in Nodes, po \in {NoNode} \cup Nodes,
       nw \in PairNetworkLists, ram \in Resources :
        InstancesPost(h, node, 1, po, nw, ram)

NextPair ==
    \/ ArrivePair
    \/ Running

SpecPair == InitPair /\ [][NextPair]_vars

\* POST /instances when addresses of network n1 are already in use: those the
\* IPManager reserved when the network was created and those of interfaces
\* made by earlier requests
InitFull ==
    /\ instances = [u \in Uuids |-> [exists |-> FALSE, node |-> NoNode, state |-> "initial"]]
    /\ interfaces = <<>>
    /\ networks = [n \in Networks \cup {Floating} |-> [state |-> "created", floating_gateway |-> 0]]
    /\ \E S \in SUBSET Addrs \ {{}} :
          ipmanagers = [n \in Networks \cup {Floating} |-> IF n = "n1" THEN S ELSE {}]
    /\ locks = [n \in Networks \cup {Floating} |-> 0]
    /\ posts = [h \in Posts |-> IdlePost]
    /\ ndel = IdleDelete
    /\ floats = [f \in Floaters |-> IdleFloat]
    /\ InitOthers

NextFull ==
    \/ Arrive
    \/ Running

SpecFull == InitFull /\ [][NextFull]_vars

\* POST /instances together with DELETE /networks/<uuid>; the network has
\* its floating gateway, reserved on the floating network when it was created
InitNet ==
    /\ instances = [u \in Uuids |-> [exists |-> FALSE, node |-> NoNode, state |-> "initial"]]
    /\ interfaces = <<>>
    /\ networks = [n \in Networks \cup {Floating} |->
           [state |-> "created", floating_gateway |-> IF n = Floating THEN 0 ELSE 1]]
    /\ ipmanagers = [n \in Networks \cup {Floating} |-> IF n = Floating THEN {1} ELSE {}]
    /\ locks = [n \in Networks \cup {Floating} |-> 0]
    /\ posts = [h \in Posts |-> IdlePost]
    /\ ndel = IdleDelete
    /\ floats = [f \in Floaters |-> IdleFloat]
    /\ InitOthers

NextNet ==
    \/ Next
    \/ \E n \in Networks \cup {Floating} : NetworkDelete(n)
    \/ NetworkDeleteTeardown
    \/ NetworkDeleteComplete

SpecNet == InitNet /\ [][NextNet]_vars

\* float and defloat requests on the interfaces of an instance that a
\* POST /instances with two networks entries has created on node A
InitFloat ==
    /\ instances = [u \in Uuids |->
           IF u = 1 THEN [exists |-> TRUE, node |-> "A", state |-> "initial"]
           ELSE [exists |-> FALSE, node |-> NoNode, state |-> "initial"]]
    /\ interfaces = [k \in {1, 2} |->
           [instance_uuid |-> 1, network_uuid |-> "n1", ipv4 |-> k, order |-> k - 1,
            state |-> "created", floating |-> 0]]
    /\ networks = [n \in Networks \cup {Floating} |-> [state |-> "created", floating_gateway |-> 0]]
    /\ ipmanagers = [n \in Networks \cup {Floating} |-> IF n = "n1" THEN {1, 2} ELSE {}]
    /\ locks = [n \in Networks \cup {Floating} |-> 0]
    /\ posts = [h \in Posts |-> IdlePost]
    /\ ndel = IdleDelete
    /\ floats = [f \in Floaters |-> IdleFloat]
    /\ InitOthers

NextFloat ==
    \/ \E f \in Floaters, op \in {"float", "defloat"}, i \in 0..Len(interfaces) :
          InterfaceCheck(f, op, i)
    \/ \E f \in Floaters : InterfaceFloatAllocate(f)
    \/ \E f \in Floaters : InterfaceFloatWrite(f)
    \/ \E f \in Floaters : InterfaceDefloatRelease(f)
    \/ \E f \in Floaters : InterfaceDefloatWrite(f)
    \/ \E f \in Floaters : InterfaceComplete(f)

SpecFloat == InitFloat /\ [][NextFloat]_vars

\* requests on an instance that a POST /instances placed on some node (or
\* left unplaced) with two interfaces
InitMut ==
    /\ \E n \in Nodes \cup {NoNode} :
          instances = [u \in Uuids |->
             IF u = 1 THEN [exists |-> TRUE, node |-> n, state |-> "created"]
             ELSE [exists |-> FALSE, node |-> NoNode, state |-> "initial"]]
    /\ interfaces = [k \in {1, 2} |->
           [instance_uuid |-> 1, network_uuid |-> "n1", ipv4 |-> k, order |-> k - 1,
            state |-> "created", floating |-> 0]]
    /\ networks = [n \in Networks \cup {Floating} |-> [state |-> "created", floating_gateway |-> 0]]
    /\ ipmanagers = [n \in Networks \cup {Floating} |-> IF n = "n1" THEN {1, 2} ELSE {}]
    /\ locks = [n \in Networks \cup {Floating} |-> 0]
    /\ posts = [h \in Posts |-> IdlePost]
    /\ ndel = IdleDelete
    /\ floats = [f \in Floaters |-> IdleFloat]
    /\ InitOthers

NextMut ==
    \/ \E node \in Nodes, op \in Mutations, uuid \in {0} \cup Uuids,
          data \in RequestBodies, token \in Tokens :
            InstanceRequest(node, op, uuid, data, token)
    \/ InstanceRequestProxied
    \/ InstanceRequestRelay
    \/ InstanceRequestComplete

SpecMut == InitMut /\ [][NextMut]_vars

\* the supervisor of a node whose API, store and image cache are left alone
InitSup ==
    Init

\* stores of up to MaxRestore instances of this node, each on or off, with
\* one interface on n1
SupervisorStores ==
    UNION {[1..k -> [node : {ThisNode}, power_state : {"on", "off"},
                     networks : {<<"n1">>}]] : k \in 0..MaxRestore}

NextSup ==
    \/ SupervisorStart(SupervisorStores)
    \/ SupervisorStartDaemon
    \/ RestoreNetwork
    \/ RestoreInstance
    \/ RestoreDone
    \/ \E pid \in sup.children : ChildExits(pid)
    \/ MonitorTick

SpecSup == InitSup /\ [][NextSup]_vars

\* startup of the supervisor over any store of up to MaxRestore instances:
\* of this node or another, in any power state, with up to two interfaces
RestoreStores ==
    UNION {[1..k -> [node : Nodes, power_state : PowerStates,
                     networks : SeqsUpTo(RestoreNetworks, 2)]] : k \in 0..MaxRestore}

InitRestore == Init

NextRestore ==
    \/ SupervisorStart(RestoreStores)
    \/ SupervisorStartDaemon
    \/ RestoreNetwork
    \/ RestoreInstance
    \/ RestoreDone

SpecRestore == InitRestore /\ [][NextRestore]_vars

\* calls of get_image for one URL on a node whose cache starts empty
InitImg ==
    Init

NextImg ==
    \/ \E url \in ImageUrls, caller_locks \in CallerLocks : GetImage(url, caller_locks)
    \/ \E resp \in ImageResponses : RequiresFetch(resp)
    \/ \E dt \in ChunkTimes : FetchChunk(dt)
    \/ FetchEnd
    \/ Transcode
    \/ GetImageComplete

SpecImg == InitImg /\ [][NextImg]_vars

\* requests of any kind passing through generic_wrapper
InitApi == Init

NextApi ==
    \/ \E include \in TracebackSettings, data \in ApiBodies, outcome \in HandlerOutcomes,
          code \in {0} \cup HandlerErrorCodes :
          GenericWrapper(include, data, outcome, code)
    \/ ResponseSent

SpecApi == InitApi /\ [][NextApi]_vars

\* ------------------------------------------------ claims on POST /instances

\* the status code a finished handler answered with
Answered(rec) ==
    IF rec.pc = "proxyreturn" THEN rec.r_status ELSE rec.status

\* C1: once the node field of an instance holds a node name, no step writes
\* another value into it.
C1_NodeWriteOnce ==
    [][\A u \in Uuids :
        instances[u].node # NoNode => instances'[u].node = instances[u].node]_vars

\* C2: no two interfaces that are not deleted hold the same ipv4 on the same
\* network.
C2_AddressHeldOnce ==
    \A i, j \in DOMAIN interfaces :
        (/\ i # j
         /\ interfaces[i].state # "deleted"
         /\ interfaces[j].state # "deleted"
         /\ interfaces[i].network_uuid = interfaces[j].network_uuid)
            => interfaces[i].ipv4 # interfaces[j].ipv4

\* C3: a request whose named address the IPManager refused answers 409, has
\* created no interface for that entry and has left no address of its own
\* in use.
C3_ConflictAnswers409 ==
    \A h \in Posts :
        (posts[h].pc = "done" /\ posts[h].refused # {})
            => /\ posts[h].status = 409
               /\ \A o \in posts[h].refused : o >= posts[h].order
               /\ posts[h].leaked = {}

\* C4: a request that answers with an error after it reserved addresses has
\* released every one of them by the time it answers.
C4_ErrorReleasesAddresses ==
    \A h \in Posts :
        (posts[h].pc = "done" /\ posts[h].status >= 400 /\ posts[h].granted # {})
            => posts[h].leaked = {}

\* C5: the ipv4 of every interface that is not deleted is in the in_use set
\* of its network's IPManager.
C5_InterfaceAddressInUse ==
    \A i \in DOMAIN interfaces :
        interfaces[i].state # "deleted"
            => interfaces[i].ipv4 \in ipmanagers[interfaces[i].network_uuid]

\* C9: when the scheduler returned no candidate, the handler has answered 507,
\* the instance is in state error, and the handler has neither written the
\* node field nor created an interface nor reserved an address.
C9_NoCandidate ==
    \A h \in Posts :
        posts[h].no_candidate
            => /\ posts[h].pc \in {"proxyreturn", "done"}
               /\ Answered(posts[h]) = 507
               /\ instances[posts[h].uuid].state = "error"
               /\ \A w \in posts[h].placed : w[1] # posts[h].self
               /\ posts[h].order = 0
               /\ posts[h].granted = {}
               /\ posts[h].allocations = <<>>
               /\ posts[h].self \notin posts[h].provisioned_on

\* C9 happens: a request that named a node without capacity has answered 507.
C9_Witness ==
    \E h \in Posts :
        /\ posts[h].pc = "done"
        /\ posts[h].no_candidate
        /\ posts[h].body.placed_on # NoNode
        /\ posts[h].status = 507

\* C10: a request without placed_on that node A re-issued went to the head B
\* of the candidates, B # A; A wrote node = B and nothing else into the
\* instance, sent one POST whose body is the original one with placed_on = B
\* and instance_uuid = U, provisioned nothing itself and, once done, answered
\* with B's status.
C10_CrossNodeCreate ==
    \A h \in Posts :
        (posts[h].body.placed_on = NoNode /\ posts[h].sent > 0)
            => LET r == posts[h]
                   B == r.msg.to
               IN  /\ B \in Nodes \ {r.origin}
                   /\ r.placed = {<<r.origin, B>>}
                   /\ r.sent = 1
                   /\ r.msg.network = r.body.network
                   /\ r.msg.placed_on = B
                   /\ r.msg.instance_uuid = r.uuid
                   /\ r.body.instance_uuid \in {0, r.uuid}
                   /\ r.origin \notin r.provisioned_on
                   /\ r.pc = "done" => r.status = r.r_status

\* C10 happens: a re-issued request that B provisioned has answered 200.
C10_Witness ==
    \E h \in Posts :
        /\ posts[h].pc = "done"
        /\ posts[h].body.placed_on = NoNode
        /\ posts[h].sent = 1
        /\ posts[h].status = 200
        /\ posts[h].order > 0

\* ------------------------------------------------ claims on networks and floating addresses

\* C6: under every interleaving of DELETE /networks/<uuid> with POST /instances
\* no network is in state deleted while an interface on it is not deleted, and
\* a delete that found interfaces answers 403 and changes nothing.
C6_NetworkInUseNotDeleted ==
    /\ [](\A n \in Networks :
            db_get_network_interfaces(n) # {} => networks[n].state # "deleted")
    /\ [][(ndel.pc = "idle" /\ ndel'.pc # "idle"
              /\ db_get_network_interfaces(ndel'.network_uuid) # {})
            => /\ ndel'.pc = "done"
               /\ ndel'.status = 403
               /\ UNCHANGED <<instances, interfaces, networks, ipmanagers, locks>>]_vars

\* C7: in every state, the states inside float and defloat included, each
\* floating address of an interface is in the in_use set of the floating
\* IPManager.
C7_FloatingInUse ==
    \A i \in DOMAIN interfaces :
        interfaces[i].floating # 0 => interfaces[i].floating \in ipmanagers[Floating]

\* C8: a float request on an interface that has a floating address, and a
\* defloat request on an interface that has none, answers 409 at once and
\* leaves the floating IPManager and the interface records as they were.
C8_RefusedFloatChangesNothing ==
    [][\A f \in Floaters :
        (/\ floats[f].pc = "idle"
         /\ floats'[f].pc # "idle"
         /\ floats'[f].iface \in DOMAIN interfaces
         /\ \/ floats'[f].op = "float" /\ interfaces[floats'[f].iface].floating # 0
            \/ floats'[f].op = "defloat" /\ interfaces[floats'[f].iface].floating = 0)
            => /\ floats'[f].pc = "done"
               /\ floats'[f].status = 409
               /\ UNCHANGED <<ipmanagers, interfaces>>]_vars

\* C8 happens: a float request refused on an interface that holds a floating
\* address, which is still held and still reserved.
C8_Witness ==
    \E f \in Floaters :
        /\ floats[f].pc = "done"
        /\ floats[f].op = "float"
        /\ floats[f].status = 409
        /\ floats[f].floating # 0
        /\ interfaces[floats[f].iface].floating = floats[f].floating
        /\ floats[f].floating \in ipmanagers[Floating]

\* ------------------------------------------------ claims on requests for one uuid

\* C11: of two POST /instances requests in flight together for the same
\* instance_uuid at most one writes the placement and at most one provisions
\* (reserves addresses, creates interfaces, starts the hypervisor).
C11_OnePlacesAndProvisions ==
    \A g, h \in DOMAIN posts :
        (/\ g # h
         /\ posts[g].pc # "idle"
         /\ posts[h].pc # "idle"
         /\ posts[g].uuid = posts[h].uuid)
            => /\ ~(posts[g].placed # {} /\ posts[h].placed # {})
               /\ ~(posts[g].provisioned_on # {} /\ posts[h].provisioned_on # {})

\* ------------------------------------------------ claims on requests on one instance

\* C12: a request on an instance received on a node that is not the node of
\* the instance runs nothing there, is sent once to the owning node with the
\* same method, path, body and Authorization header, and is answered with the
\* status code, body and content type of the owning node's answer.
C12_ProxyVerbatim ==
    (mut.sent > 0 /\ mut.msg.to \in Nodes)
        => /\ mut.sent = 1
           /\ mut.msg.to # mut.self
           /\ mut.self \notin mut.ran_on
           /\ mut.msg.method = mut.method
           /\ mut.msg.path = mut.path
           /\ mut.msg.data = mut.data
           /\ mut.msg.authorization = mut.authorization
           /\ mut.pc = "done" => mut.resp = mut.r

\* ------------------------------------------------ claims on the supervisor

\* the roles main() starts
Roles == {"resources"} \cup Range(StartedDaemons)

\* C13: the monitor tick that reaps the child recorded for a role forks a new
\* child for that role, and its pid, another than the old one, is recorded
\* for the role in DAEMONS.
C13_ExitedChildReforked ==
    [][\A d \in Roles :
        (/\ sup.pc = "monitor"
         /\ sup'.ticks = sup.ticks + 1
         /\ sup'.wpid # 0
         /\ sup.DAEMONS[PyStr(d)] = PyInt(sup'.wpid))
            => /\ sup'.DAEMONS[PyStr(d)] # PyInt(sup'.wpid)
               /\ sup'.DAEMONS[PyStr(d)].int \in sup'.children]_vars

\* C14: the monitor loop does not end, whatever children have exited, and
\* every tick refreshes the heartbeat.
C14_MonitorNeverEnds ==
    /\ [](~(sup.pc = "crashed" /\ sup.crashed_in = "monitor"))
    /\ [][(sup.pc = "monitor" /\ sup'.ticks = sup.ticks + 1)
            => sup'.pc = "monitor" /\ sup'.heartbeats = sup.heartbeats + 1]_vars

\* C15: when restoring an instance raised, a delete with reason error is
\* enqueued for it, the instances after it are still restored, and the
\* supervisor reaches its monitor loop.
C15_RestoreFailureContinues ==
    /\ ~(sup.pc = "crashed" /\ sup.crashed_in = "restore")
    /\ sup.pc = "monitor"
        => /\ sup.todo = <<>>
           /\ \A u \in sup.raised : <<u, "error">> \in sup.enqueued

\* ------------------------------------------------ claims on the image cache

\* C16: a call of get_image that follows one that returned, for the same URL
\* and with the same Last-Modified and Content-Length from the server, finds
\* the cache clean, writes no payload file, leaves .info as it was and has
\* released the image lock when it is done.
C16_SecondWarmClean ==
    (/\ img.pc \in {"fetch", "transcode", "done"}
     /\ img.resp.status_code = 200
     /\ img.prev.seen
     /\ img.prev.LastModified = img.resp.LastModified
     /\ img.prev.ContentLength = img.resp.ContentLength)
        => /\ ~img.dirty
           /\ ~img.wrote
           /\ read_info(img.infos, img.url, hash_image(img.url)) = img.info_before
           /\ img.pc = "done" => ~img.image_lock.held

\* C17: once a fetch has returned, the Content-Length in <hash>.info is the
\* size of the payload file of the version in that .info.
C17_InfoLengthIsPayloadSize ==
    (img.dirty /\ img.path # NoPath /\ hash_image(img.url) \in DOMAIN img.infos)
        => LET info == img.infos[hash_image(img.url)]
           IN  img.payloads[<<hash_image(img.url), info.version>>] = info.ContentLength

\* C18: when the server answered another status than 200, get_image has
\* raised, written no payload and left .info as it was; and whenever
\* get_image is done, by return or by an exception in fetch, decompression or
\* transcode, the image lock is released.
C18_ErrorReleasesImageLock ==
    /\ (img.pc = "done" /\ img.resp.status_code # 200)
        => /\ img.raised # ""
           /\ ~img.wrote
           /\ read_info(img.infos, img.url, hash_image(img.url)) = img.info_before
    /\ img.pc = "done" => ~img.image_lock.held

\* C18 happens: a version is stored, and the server answers 404 to the next call.
C18_Witness ==
    /\ img.pc = "done"
    /\ img.resp.status_code = 404
    /\ img.raised = "HTTPError"
    /\ img.info_before.exists
    /\ img.info_before.version > 0

\* C19: while get_image holds the image lock its lease has not run out, and a
\* chunk that arrives more than 10 seconds after the last refresh refreshes
\* the image lock and every lock the caller passed.
C19_LocksRefreshedDuringFetch ==
    /\ [](img.image_lock.held => img.elapsed <= img.image_lock.expires)
    /\ [][(/\ img.pc = "fetch"
           /\ img'.fetched = img.fetched + 1
           /\ \/ img.last_lock_refresh = -1
              \/ img'.elapsed - img.last_lock_refresh > LockRefreshEvery)
            => /\ img'.image_lock.refreshed = img.image_lock.refreshed + 1
               /\ "caller" \in Range(img.locks.handles)
                    => img'.caller_refreshed = img.caller_refreshed + 1]_vars

\* C20: when POST /instances reaches a networks entry without an explicit
\* address whose network has no free address, get_random_free_address raises
\* and the response of the API has status 507.
C20_ExhaustionAnswers507 ==
    [][\A h \in DOMAIN posts :
        (Exhausted(posts[h]) /\ posts'[h] # posts[h]) => Answered(posts'[h]) = 507]_vars

\* ------------------------------------------------ claims on every request

\* C21: an exception that escapes a handler is answered with status 500 and
\* a body of error and status; a body holds a traceback only when
\* INCLUDE_TRACEBACKS is '1'.
C21_EscapedExceptionIs500 ==
    /\ (req.pc = "done" /\ req.raised)
        => /\ req.resp.status_code = 500
           /\ req.resp.status = 500
           /\ req.resp.error # ""
    /\ (req.pc = "done" /\ req.resp.traceback) => req.INCLUDE_TRACEBACKS = "1"

\* C21: an exception escaped while INCLUDE_TRACEBACKS is '0': 500, no traceback
C21_Witness ==
    /\ req.pc = "done" /\ req.raised /\ req.outcome = "raises"
    /\ req.INCLUDE_TRACEBACKS = "0" /\ ~req.resp.traceback /\ req.resp.status_code = 500

\* ------------------------------------------------ claims on interface order

\* the interfaces of instance u
InterfacesOf(u) ==
    {i \in DOMAIN interfaces : interfaces[i].instance_uuid = u}

\* C22: the order values of the interfaces of one instance are pairwise
\* distinct and are 0..k-1, and the entry of order j is the j-th networks
\* entry of the request that made it.
C22_OrderDense ==
    /\ \A u \in Uuids :
          /\ \A i, j \in InterfacesOf(u) : i # j => interfaces[i].order # interfaces[j].order
          /\ {interfaces[i].order : i \in InterfacesOf(u)} = 0..(Cardinality(InterfacesOf(u)) - 1)
    /\ \A h \in DOMAIN posts :
          posts[h].pc \in {"net", "alloc", "persist", "start"}
              => \A j \in 0..(posts[h].order - 1) :
                    \E i \in InterfacesOf(posts[h].uuid) :
                        /\ interfaces[i].order = j
                        /\ interfaces[i].network_uuid = posts[h].network[j + 1].network_uuid

\* C23: requires_fetch reports dirty exactly when no .info exists for the image
\* or a validated header differs from the stored value; with no .info the
\* copy is dirty whatever the server sends.
C23_DirtyIffChanged ==
    (/\ img.resp.status_code = 200
     /\ \/ img.pc = "fetch" /\ img.fetched = 0
        \/ img.pc = "transcode" /\ ~img.wrote
        \/ img.pc = "done" /\ img.raised = "AttributeError")
        => LET stored == read_info(img.infos, img.image_url, hash_image(img.image_url))
           IN  img.dirty <=> \/ ~stored.exists
                             \/ stored.LastModified # img.resp.LastModified
                             \/ stored.ContentLength # img.resp.ContentLength

\* C24: within one get_image call the lock name, the .info read for the dirty
\* check, the .info written after the fetch and the payload path all use one
\* hash, the SHA-256 of the resolved URL.
C24_OneHashPerCall ==
    img.pc # "idle"
        => \A k \in DOMAIN img.keys :
              img.keys[k] # "" => img.keys[k] = hash_image(resolve(img.url))

\* C30: with unchanged server headers a clean-hit call returns the path the
\* earlier call returned (the .orig path for a URL ending in .gz), and a
\* returned path names a file that was written.
C30_SamePathOnCleanHit ==
    (img.pc = "done" /\ img.raised = "")
        => /\ PathExists(img, img.path)
           /\ EndsWithGz(img.url) => img.path.orig
           /\ (/\ ~img.dirty /\ img.prev.seen
               /\ img.prev.LastModified = img.resp.LastModified
               /\ img.prev.ContentLength = img.resp.ContentLength)
                   => img.path = img.prev.path

\* ------------------------------------------------ claims on supervisor startup

\* the places of a step in the trace of main()
Places(what, d) ==
    {k \in DOMAIN sup.trace : sup.trace[k] = Event(what, d)}

\* every step what(d) of the trace has a step before(e) ahead of it
Precedes(before, e, what, d) ==
    \A k \in Places(what, d) : \E j \in Places(before, e) : j < k

\* C25: the node is recorded first; the resources publisher is forked and
\* recorded before any other worker is forked; api, cleaner, net, queues and
\* triggers are all forked before restore starts; the monitor loop is entered
\* only after restore has returned.
C25_StartupOrder ==
    /\ sup.trace # <<>> => sup.trace[1] = Event("see_this_node", "")
    /\ \A d \in {"api", "cleaner", "net", "queues", "triggers"} :
          /\ Precedes("fork", "resources", "fork", d)
          /\ Precedes("record", "resources", "fork", d)
          /\ Precedes("fork", d, "restore_instances", "")
    /\ Precedes("restore returned", "", "monitor", "")
    /\ sup.pc \in {"restore", "monitor"} => Places("restore_instances", "") # {}
    /\ sup.pc = "monitor" => Places("monitor", "") # {}

\* C25: the monitor loop is reached after an instance was restored
C25_Witness ==
    /\ sup.pc = "monitor" /\ sup.created # {}
    /\ Places("monitor", "") # {}

\* ------------------------------------------------ claims on restore

\* the stored instances of this node
OfThisNode ==
    {u \in DOMAIN sup.db : sup.db[u].node = ThisNode}

\* C26: restore restores every network an interface of an instance of this
\* node is on before it boots any instance, and it boots an instance of this
\* node exactly when its stored power_state is on, transition-to-on, initial
\* or unknown (or missing); other instances are never booted.
C26_RestoreBootsByPowerState ==
    LET ToBoot == {u \in OfThisNode :
                      sup.db[u].power_state \in {"on", "transition-to-on", "initial",
                                                  "unknown", ""}}
    IN  /\ \A u \in OfThisNode : \A n \in Range(sup.db[u].networks) :
              Precedes("restore network", n, "create instance", "")
        /\ sup.booted \subseteq ToBoot
        /\ sup.pc \in {"monitor", "crashed"} => ToBoot \subseteq sup.booted

\* ------------------------------------------------ claims on the IPManager lock

\* request h writes the IPManager of network n back (line 406)
PersistBy(h, n) ==
    /\ posts[h].pc = "persist"
    /\ posts'[h].pc # "persist"
    /\ posts[h].network[posts[h].order + 1].network_uuid = n

\* what request h itself changed in the IPManager it is about to write back
OwnChange(h) ==
    IF posts[h].order \in posts[h].refused THEN {}
    ELSE {posts[h].network[posts[h].order + 1].address}

\* C27: every read-modify-write of an IPManager happens while the lock of its
\* network is held by the writer, and no persisted update is lost: what is
\* written is what is stored plus the writer's own change.
C27_IpmanagerUnderLock ==
    [][\A n \in DOMAIN ipmanagers :
        /\ \A h \in DOMAIN posts :
              PersistBy(h, n) => /\ locks[n] = h
                                 /\ ipmanagers'[n] = ipmanagers[n] \cup OwnChange(h)
        /\ (ipmanagers'[n] # ipmanagers[n] /\ ~\E h \in DOMAIN posts : PersistBy(h, n))
              => locks[n] = 0]_vars


\* C28: a create request is re-issued to another node at most once: only the
\* node the client reached forwards, only to a different node, and the node
\* that receives placed_on equal to its own name goes on locally (or answers)
\* and never forwards.
C28_ForwardedAtMostOnce ==
    /\ [](\A h \in Posts :
            /\ posts[h].sent <= 1
            /\ posts[h].pc = "dispatch"
                   => /\ posts[h].sent = 0
                      /\ posts[h].self = posts[h].origin
                      /\ posts[h].placed_on # posts[h].self
            /\ posts[h].sent = 1 => posts[h].msg.placed_on = posts[h].msg.to)
    /\ [][\A h \in DOMAIN posts :
            (posts[h].pc = "proxied" /\ posts'[h].pc # "proxied")
                => /\ posts'[h].pc \in {"net", "start", "done", "proxyreturn"}
                   /\ posts'[h].sent = 1
                   /\ posts'[h].pc \in {"net", "start"}
                          => posts'[h].self = posts[h].msg.placed_on]_vars

\* C28 happens: the node that received the forwarded request provisioned it
\* itself and the request was sent once.
C28_Witness ==
    \E h \in Posts :
        /\ posts[h].pc = "done"
        /\ posts[h].sent = 1
        /\ posts[h].self # posts[h].origin
        /\ posts[h].self \in posts[h].provisioned_on
        /\ posts[h].status = 200


\* C29: once DELETE /instances/{uuid} has run on the node of the instance and
\* answered 200, every interface record of that instance is in state deleted,
\* two interfaces on one network included.
C29_DeleteMarksEveryInterface ==
    (/\ mut.pc = "done"
     /\ mut.method = "DELETE"
     /\ mut.ran_on # {}
     /\ mut.resp.status_code = 200)
        => \A k \in DOMAIN interfaces :
              interfaces[k].instance_uuid = mut.instance_uuid
                  => interfaces[k].state = "deleted"


\* C31: under any interleaving of float requests, two on one interface
\* included, once every request has completed each address in the in_use set
\* of the floating IPManager (which starts empty, so a float request added
\* it) is the floating field of some interface.
C31_NoFloatingLeak ==
    (\A f \in Floaters : floats[f].pc \in {"idle", "done"})
        => \A a \in ipmanagers[Floating] :
              \E i \in DOMAIN interfaces : interfaces[i].floating = a


\* C32: a POST /instances handler never asks for sf/ipmanager/<network_uuid>
\* while it holds that lock: when reserve() is refused inside the lock of a
\* network (lines 396-405) and error_with_cleanup is entered, no address of
\* that network is tracked in allocations.
C32_NoNestedLock ==
    [][\A h \in DOMAIN posts :
        (/\ posts[h].pc = "alloc"
         /\ posts'[h].refused # posts[h].refused)
            => posts[h].network[posts[h].order + 1].network_uuid
                   \notin AllocNets(posts[h].allocations)]_vars

====
